---- MODULE Spec2Model ----
(***************************************************************************)
(* Model of the sidecar supervisor of ChronosInventory                     *)
(* (frontend/src-tauri/src/main.rs): the BackendState slot, setup,         *)
(* wait_for_health, the event forwarding task, stop_backend and its four   *)
(* callers, wait_backend_port_release, restart_app and log_line.           *)
(*                                                                         *)
(* Time is counted in milliseconds.  wait_for_health only accumulates the  *)
(* delays it slept (elapsed += delay), so the endpoint's behaviour is      *)
(* given as a function of that accumulated time (requests take no time).   *)
(***************************************************************************)
EXTENDS Integers, Sequences, FiniteSets, TLC

\* ---------------------------------------------------------------- bounds
\* Lines of output (Stdout / Stderr / Error events) the worker may emit.
MaxOutput == 1

\* ------------------------------------------------------ program constants
InitialDelay  == 300      \* Duration::from_millis(300)
MaxDelay      == 2000     \* Duration::from_secs(2)
HealthTimeout == 20000    \* Duration::from_secs(20) in setup
PollInterval  == 120      \* Duration::from_millis(120)
PortTimeout   == 3000     \* Duration::from_secs(3) in restart_app

\* The reasons stop_backend is called with, one per call site.
Callers == {"restart_app_command", "close_requested", "exit_requested", "exit"}

\* CommandEvent variants the forwarding task logs.
OutputEvents == {"Stdout", "Stderr", "Error"}

\* Behaviours of the health endpoint the model is run against.
Endpoints == {"any", "never", "500_for_2s_then_200"}

\* Timeouts wait_for_health is exercised with as a function on its own.
Timeouts == {0, 300, 1000, 3955, 10000, HealthTimeout}

VARIABLES
    slot,       \* BackendState: "None" or "Some" (the CommandChild)
    worker,     \* the sidecar process: "absent", "running" or "dead"
    rx,         \* events sent by the worker and not yet received
    fwdlog,     \* events the forwarding task has logged, in order
    window,     \* main window: "absent", "visible", "hidden" or "shown"
    spc,        \* position of the setup closure
    hpc,        \* position of the health gating task
    delay,      \* wait_for_health: delay
    elapsed,    \* wait_for_health: elapsed
    timeout,    \* wait_for_health: timeout
    endpoint,   \* behaviour of the health endpoint
    hres,       \* wait_for_health: returned value ("none" before it returns)
    attempts,   \* elapsed at each GET issued, in order
    slept,      \* delays slept, in order
    cpc,        \* per caller: position inside stop_backend
    outcome,    \* per caller: the line stop_backend logged
    kills,      \* number of child.kill() requests made
    rpc,        \* position of restart_app
    waited,     \* wait_backend_port_release: started.elapsed()
    nwaits,     \* calls of wait_backend_port_release made by restart_app
    nforce,     \* force_kill_backend_processes + 300 ms sleeps made
    warned,     \* "prosseguindo mesmo assim" was logged
    lastbind,   \* result of the latest is_backend_port_free(): "free", "busy"
    proc,       \* the application process: "running", "exited", "restarted"
    lpc,        \* log_line: index of the path being written (0: no call, 3: returned)
    lenv,       \* per file: whether create_dir_all, open and writeln succeed
    lpaths,     \* log_line: paths
    files,      \* per file: lines appended
    ltried      \* log_line: indices of the paths whose open was attempted

hvars == <<hpc, delay, elapsed, timeout, endpoint, hres, attempts, slept>>
wvars == <<worker, rx, fwdlog>>
cvars == <<cpc, outcome, kills>>
rvars == <<rpc, waited, nwaits, nforce, warned, lastbind>>
lvars == <<lpc, lenv, lpaths, files, ltried>>
vars  == <<slot, window, spc, proc, hvars, wvars, cvars, rvars, lvars>>

Min(a, b) == IF a <= b THEN a ELSE b

\* -------------------------------------------------------------- log_line
\* The two log files: the one under LOCALAPPDATA and the one under the temp
\* directory.
Files == {"primary", "temp"}

\* log_path(): under LOCALAPPDATA when it is set, else the temp file.
log_path(localappdata) == IF localappdata THEN "primary" ELSE "temp"

\* let paths = [log_path(), std::env::temp_dir().join(...)];
LogPaths(localappdata) == <<log_path(localappdata), "temp">>

\* The loop goes on to the next path whatever create_dir_all, open and
\* writeln returned (let _ = ..., if let Ok(..)).
NextPathMut(i, ok) == IF ok THEN i + 1 ELSE 3
NextPath(i, ok) == i + 1

\* One iteration of `for path in paths`: create_dir_all, open in append
\* mode, writeln.
log_line_step ==
    /\ lpc \in {1, 2}
    /\ LET f == lpaths[lpc]
           e == lenv[f]
       IN /\ files' = [files EXCEPT ![f] = IF e.open /\ e.write THEN @ + 1 ELSE @]
          /\ lpc' = NextPath(lpc, e.mkdir /\ e.open /\ e.write)
    /\ ltried' = ltried \cup {lpc}
    /\ UNCHANGED <<slot, window, spc, proc, hvars, wvars, cvars, rvars, lenv, lpaths>>

\* ------------------------------------------------------------ the worker
NOutput(s) == Cardinality({i \in 1..Len(s) : s[i] \in OutputEvents})

\* The worker process ends: its event stream delivers Terminated.
TerminateMut(w, q) == IF w = "running" THEN <<"Terminated">> ELSE q
Terminate(w, q) == IF w = "running" THEN Append(q, "Terminated") ELSE q

\* The worker writes a line (or the stream reports an error).
worker_output(e) ==
    /\ proc = "running"
    /\ worker = "running"
    /\ NOutput(rx) + NOutput(fwdlog) < MaxOutput
    /\ rx' = Append(rx, e)
    /\ UNCHANGED <<slot, window, spc, proc, hvars, cvars, rvars, worker, fwdlog>>
    /\ UNCHANGED lvars

\* The worker exits on its own (crash or normal end).
worker_exit ==
    /\ proc = "running"
    /\ worker = "running"
    /\ worker' = "dead"
    /\ rx' = Terminate(worker, rx)
    /\ UNCHANGED <<slot, window, spc, proc, hvars, cvars, rvars, fwdlog>>
    /\ UNCHANGED lvars

\* What the forwarding task does to the slot for an event: nothing, it
\* only logs (it does not capture the app handle).
SlotAfterEventMut(e, s) == IF e = "Terminated" THEN "None" ELSE s
SlotAfterEvent(e, s) == s

\* while let Some(event) = rx.recv().await { match event { ... log_line } }
forward_event ==
    /\ proc = "running"
    /\ rx # << >>
    /\ fwdlog' = Append(fwdlog, Head(rx))
    /\ rx' = Tail(rx)
    /\ slot' = SlotAfterEvent(Head(rx), slot)
    /\ UNCHANGED <<window, spc, proc, hvars, cvars, rvars, worker>>
    /\ UNCHANGED lvars

\* ----------------------------------------------------------------- setup
\* app.get_window("main"): None => log and return Ok(()).
setup_get_window ==
    /\ proc = "running"
    /\ spc = "start"
    /\ spc' = IF window = "absent" THEN "done" ELSE "hide"
    /\ UNCHANGED <<slot, window, proc, hvars, wvars, cvars, rvars>>
    /\ UNCHANGED lvars

\* Where setup goes after window.hide() returned: `?` returns the Err.
AfterHideMut(ok) == "spawn"
AfterHide(ok) == IF ok THEN "spawn" ELSE "failed"

\* window.hide()?  -- an Err is returned from setup, which ends the process.
setup_hide ==
    /\ proc = "running"
    /\ spc = "hide"
    /\ \E ok \in BOOLEAN :
         /\ window' = IF ok THEN "hidden" ELSE window
         /\ spc' = AfterHide(ok)
         /\ proc' = IF spc' = "failed" THEN "exited" ELSE proc
    /\ UNCHANGED <<slot, hvars, wvars, cvars, rvars>>
    /\ UNCHANGED lvars

\* match spawn_backend() { Ok => store the child, start forwarding;
\*                         Err => log }
setup_spawn ==
    /\ proc = "running"
    /\ spc = "spawn"
    /\ \E ok \in BOOLEAN :
         IF ok THEN /\ slot' = "Some"
                    /\ worker' = "running"
               ELSE /\ slot' = slot
                    /\ worker' = worker
    /\ spc' = "gate"
    /\ UNCHANGED <<window, proc, hvars, cvars, rvars, rx, fwdlog>>
    /\ UNCHANGED lvars

\* tauri::async_runtime::spawn(async move { wait_for_health(...) ... })
setup_gate ==
    /\ proc = "running"
    /\ spc = "gate"
    /\ spc' = "done"
    /\ hpc' = "loop"
    /\ UNCHANGED <<slot, window, proc, wvars, cvars, rvars,
                   delay, elapsed, timeout, endpoint, hres, attempts, slept>>
    /\ UNCHANGED lvars

\* ------------------------------------------------------- wait_for_health
\* The responses a GET can get: "ok" (2xx), "fail" (non-2xx) or "err".
Responses(ep, t) ==
    CASE ep = "any"   -> {"ok", "fail", "err"}
      [] ep = "never" -> {"fail", "err"}
      [] OTHER        -> IF t >= 2000 THEN {"ok"} ELSE {"fail"}

\* if let Ok(resp) = ... { if resp.status().is_success() { return true } }
IsSuccessMut(resp) == resp \in {"ok", "fail"}
IsSuccess(resp) == resp = "ok"

\* if elapsed >= timeout { return false; }
TimedOutMut(e, t) == e > t
TimedOut(e, t) == e >= t

\* min(Duration::from_millis((delay.as_millis() as f32 * 1.5) as u64), 2 s)
\* (the products are below 2^24, so the f32 arithmetic is exact and the
\* cast truncates)
NextDelayMut(d) == (d * 3) \div 2
NextDelayDouble(d) == Min(d * 2, MaxDelay)
NextDelay(d) == Min((d * 3) \div 2, MaxDelay)

\* One iteration of the loop: GET, then the timeout check, then the sleep.
wait_for_health ==
    /\ proc = "running"
    /\ hpc = "loop"
    /\ attempts' = Append(attempts, elapsed)
    /\ \E resp \in Responses(endpoint, elapsed) :
         IF IsSuccess(resp)
         THEN /\ hpc' = "returned" /\ hres' = "true"
              /\ UNCHANGED <<delay, elapsed, slept>>
         ELSE IF TimedOut(elapsed, timeout)
         THEN /\ hpc' = "returned" /\ hres' = "false"
              /\ UNCHANGED <<delay, elapsed, slept>>
         ELSE /\ slept' = Append(slept, delay)
              /\ elapsed' = elapsed + delay
              /\ delay' = NextDelay(delay)
              /\ UNCHANGED <<hpc, hres>>
    /\ UNCHANGED <<slot, window, spc, proc, wvars, cvars, rvars, timeout, endpoint>>
    /\ UNCHANGED lvars

\* Whether the gating task calls window_clone.show() for a result.
ShowsMut(r) == r = "true"
Shows(r) == TRUE

\* What the gating task does to the slot for a result: nothing, a timeout
\* is only logged.
SlotAfterHealthMut(r, s) == IF r = "false" THEN "None" ELSE s
SlotAfterHealth(r, s) == s

\* if !ok { log_line(...) }  let _ = window_clone.show();
health_show ==
    /\ proc = "running"
    /\ hpc = "returned"
    /\ hpc' = "done"
    /\ window' = IF Shows(hres) THEN "shown" ELSE window
    /\ slot' = SlotAfterHealth(hres, slot)
    /\ UNCHANGED <<spc, proc, wvars, cvars, rvars,
                   delay, elapsed, timeout, endpoint, hres, attempts, slept>>
    /\ UNCHANGED lvars

\* ---------------------------------------------------------- stop_backend
\* Option::take leaves None in the slot.
TakeSlotMut(s) == s
TakeSlot(s) == "None"

\* The process ends once the RunEvent::Exit callback has returned.
ProcAfterStop(c, p) == IF c = "exit" THEN "exited" ELSE p

\* let child = app.state::<BackendState>().0.lock().unwrap().take();
\* with the slot empty: log "backend ja estava encerrado" and return.
stop_backend_take(c) ==
    /\ proc = "running"
    /\ spc = "done"
    /\ cpc[c] = "idle"
    /\ IF slot = "Some"
       THEN /\ cpc' = [cpc EXCEPT ![c] = "kill"]
            /\ UNCHANGED <<outcome, proc>>
       ELSE /\ cpc' = [cpc EXCEPT ![c] = "done"]
            /\ outcome' = [outcome EXCEPT ![c] = "ja_encerrado"]
            /\ proc' = ProcAfterStop(c, proc)
    /\ slot' = TakeSlot(slot)
    /\ UNCHANGED <<window, spc, hvars, wvars, kills, rvars>>
    /\ UNCHANGED lvars

\* The worker after child.kill() returned r.
KillEffectMut(r, w) == w
KillEffect(r, w) == IF r = "Ok" THEN "dead" ELSE w

\* match child.kill() { Ok(_) => log "finalizado", Err(err) => log "falha" }
stop_backend_kill(c) ==
    /\ proc = "running"
    /\ cpc[c] = "kill"
    /\ \E r \in {"Ok", "Err"} :
         /\ worker' = KillEffect(r, worker)
         /\ rx' = IF worker' = "dead" THEN Terminate(worker, rx) ELSE rx
         /\ outcome' = [outcome EXCEPT ![c] = IF r = "Ok" THEN "finalizado" ELSE "falha"]
    /\ kills' = kills + 1
    /\ cpc' = [cpc EXCEPT ![c] = "done"]
    /\ proc' = ProcAfterStop(c, proc)
    /\ UNCHANGED <<slot, window, spc, hvars, fwdlog, rvars>>
    /\ UNCHANGED lvars

\* ------------------------------------------- wait_backend_port_release
\* while started.elapsed() < timeout
InLoopMut(w, t) == w <= t
InLoop(w, t) == w < t

\* Where restart_app goes when a wait returns `free`.
AfterWaitMut(pc, free) ==
    IF pc = "wait1" THEN (IF free THEN "wait2" ELSE "force")
    ELSE IF free THEN "restart" ELSE "abort"
AfterWaitSkip(pc, free) ==
    IF pc = "wait1" THEN (IF free THEN "restart" ELSE "force") ELSE "restart"
AfterWait(pc, free) ==
    IF pc = "wait1" THEN (IF free THEN "wait2" ELSE "force") ELSE "restart"

\* One iteration of the loop (bind, then return true or sleep 120 ms), or
\* the final is_backend_port_free() once the timeout has elapsed.
port_wait_step ==
    /\ proc = "running"
    /\ rpc \in {"wait1", "wait2"}
    /\ \E free \in BOOLEAN :
         /\ lastbind' = IF free THEN "free" ELSE "busy"
         /\ IF InLoop(waited, PortTimeout) /\ ~free
            THEN /\ waited' = waited + PollInterval
                 /\ UNCHANGED <<rpc, warned>>
            ELSE /\ rpc' = AfterWait(rpc, free)
                 /\ waited' = 0
                 /\ warned' = (warned \/ (rpc = "wait2" /\ ~free))
    /\ nwaits' = IF rpc' \in {"wait1", "wait2"} /\ rpc' # rpc THEN nwaits + 1 ELSE nwaits
    /\ UNCHANGED <<slot, window, spc, proc, hvars, wvars, cvars, nforce>>
    /\ UNCHANGED lvars

\* ----------------------------------------------------------- restart_app
\* stop_backend(&app, "restart_app_command") has returned: the first
\* wait_backend_port_release(3 s) starts.
restart_app_wait ==
    /\ proc = "running"
    /\ rpc = "idle"
    /\ cpc["restart_app_command"] = "done"
    /\ rpc' = "wait1"
    /\ waited' = 0
    /\ nwaits' = nwaits + 1
    /\ UNCHANGED <<slot, window, spc, proc, hvars, wvars, cvars, nforce, warned, lastbind>>
    /\ UNCHANGED lvars

\* force_kill_backend_processes(); sleep(300 ms).  taskkill ends the worker
\* or fails; off Windows the function is empty.
restart_app_force ==
    /\ proc = "running"
    /\ rpc = "force"
    /\ \E killed \in BOOLEAN :
         /\ worker' = IF killed /\ worker = "running" THEN "dead" ELSE worker
         /\ rx' = IF worker' # worker THEN Terminate(worker, rx) ELSE rx
    /\ nforce' = nforce + 1
    /\ rpc' = "wait2"
    /\ waited' = 0
    /\ nwaits' = nwaits + 1
    /\ UNCHANGED <<slot, window, spc, proc, hvars, cvars, fwdlog, warned, lastbind>>
    /\ UNCHANGED lvars

\* app.restart()
restart_app_restart ==
    /\ proc = "running"
    /\ rpc = "restart"
    /\ rpc' = "done"
    /\ proc' = "restarted"
    /\ UNCHANGED <<slot, window, spc, hvars, wvars, cvars, waited, nwaits, nforce, warned,
                   lastbind>>
    /\ UNCHANGED lvars

\* ------------------------------------------------------- specifications
HealthInit(pc) ==
    /\ hpc = pc
    /\ delay = InitialDelay
    /\ elapsed = 0
    /\ hres = "none"
    /\ attempts = << >>
    /\ slept = << >>

\* No call of log_line in progress.
LogIdle ==
    /\ lpc = 0
    /\ lenv = [f \in Files |-> [mkdir |-> TRUE, open |-> TRUE, write |-> TRUE]]
    /\ lpaths = LogPaths(TRUE)
    /\ files = [f \in Files |-> 0]
    /\ ltried = {}

ProgramInit ==
    /\ slot = "None"
    /\ worker = "absent"
    /\ rx = << >>
    /\ fwdlog = << >>
    /\ window \in {"absent", "visible"}
    /\ spc = "start"
    /\ HealthInit("none")
    /\ timeout = HealthTimeout
    /\ endpoint = "any"
    /\ cpc = [c \in Callers |-> "idle"]
    /\ outcome = [c \in Callers |-> "none"]
    /\ kills = 0
    /\ rpc = "idle"
    /\ waited = 0
    /\ nwaits = 0
    /\ nforce = 0
    /\ warned = FALSE
    /\ lastbind = "none"
    /\ proc = "running"

Init == ProgramInit /\ LogIdle

SetupNext ==
    \/ setup_get_window
    \/ setup_hide
    \/ setup_spawn
    \/ setup_gate

HealthNext ==
    \/ wait_for_health
    \/ health_show

WorkerNext ==
    \/ \E e \in OutputEvents : worker_output(e)
    \/ worker_exit
    \/ forward_event

StopNext(cs) ==
    \/ \E c \in cs : stop_backend_take(c)
    \/ \E c \in cs : stop_backend_kill(c)

RestartNext ==
    \/ restart_app_wait
    \/ port_wait_step
    \/ restart_app_force
    \/ restart_app_restart

Next == SetupNext \/ HealthNext \/ WorkerNext \/ StopNext(Callers) \/ RestartNext

\* The whole program.
Spec == Init /\ [][Next]_vars

\* The stop and restart paths with the worker and its event stream; the
\* health gating task, which shares no variable with them, is not scheduled.
ShutdownNext == SetupNext \/ WorkerNext \/ StopNext(Callers) \/ RestartNext
ShutdownSpec == Init /\ [][ShutdownNext]_vars

\* Executions in which the process keeps running (no RunEvent::Exit, no
\* restart_app): setup and the tasks it spawns are scheduled fairly.
StartupNext ==
    SetupNext \/ HealthNext \/ WorkerNext
        \/ StopNext({"close_requested", "exit_requested"})
StartupLive ==
    Init /\ [][StartupNext]_vars /\ WF_vars(SetupNext) /\ WF_vars(HealthNext)

\* The same steps, for the safety properties of the startup sequence.
StartupSpec == Init /\ [][StartupNext]_vars

\* The same steps with the event forwarding task scheduled fairly: it is a
\* task of the async runtime, which polls it while the process runs.
ForwardLive == Init /\ [][StartupNext]_vars /\ WF_vars(forward_event)

\* restart_app runs on its thread until it returns; RunEvent::Exit does not
\* end the process under it.
RestartLiveNext ==
    SetupNext \/ WorkerNext \/ RestartNext
        \/ StopNext({"restart_app_command", "close_requested", "exit_requested"})
RestartLive ==
    Init /\ [][RestartLiveNext]_vars
         /\ WF_vars(StopNext({"restart_app_command"}) \/ RestartNext)

\* wait_for_health as a function of its timeout and of the endpoint: the
\* gating task has just been spawned.
HealthSpecInit ==
    /\ slot = "None"
    /\ worker = "absent"
    /\ rx = << >>
    /\ fwdlog = << >>
    /\ window = "hidden"
    /\ spc = "done"
    /\ HealthInit("loop")
    /\ timeout \in Timeouts
    /\ endpoint \in Endpoints
    /\ cpc = [c \in Callers |-> "idle"]
    /\ outcome = [c \in Callers |-> "none"]
    /\ kills = 0
    /\ rpc = "idle"
    /\ waited = 0
    /\ nwaits = 0
    /\ nforce = 0
    /\ warned = FALSE
    /\ lastbind = "none"
    /\ proc = "running"
    /\ LogIdle
HealthSpec == HealthSpecInit /\ [][HealthNext]_vars

\* The same, with the gating task scheduled fairly (every GET and every
\* sleep returns).
HealthLive == HealthSpecInit /\ [][HealthNext]_vars /\ WF_vars(HealthNext)

\* log_line as a function of the environment: main's first statement,
\* log_line("main start"), with every combination of LOCALAPPDATA set or
\* not and of each file's directory creation, open and write succeeding or
\* failing.  (log_line changes nothing of the supervisor's state, so its
\* calls inside the handlers are not steps of the other specifications.)
LogSpecInit ==
    /\ ProgramInit
    /\ lpc = 1
    /\ lenv \in [Files -> [mkdir : BOOLEAN, open : BOOLEAN, write : BOOLEAN]]
    /\ \E localappdata \in BOOLEAN : lpaths = LogPaths(localappdata)
    /\ files = [f \in Files |-> 0]
    /\ ltried = {}
LogSpec == LogSpecInit /\ [][log_line_step]_vars

\* ================================================================ claims
Range(q) == {q[i] : i \in 1..Len(q)}

\* Callers that took the handle out of the slot.
Takers == {c \in Callers : cpc[c] = "kill" \/ outcome[c] \in {"finalizado", "falha"}}

\* C1: however the stop_backend calls of restart_app, CloseRequested,
\* ExitRequested and Exit interleave, the stored handle is taken by exactly
\* one caller, kill is requested at most once, and every other caller finds
\* the slot empty and logs that the backend was already stopped.
C1_SingleTaker ==
    /\ kills <= 1
    /\ Cardinality(Takers) <= 1
    /\ (worker # "absent" /\ slot = "None") => Cardinality(Takers) = 1
    /\ \A c \in Callers :
         (cpc[c] = "done" /\ c \notin Takers) => outcome[c] = "ja_encerrado"
    /\ \A c \in Callers : cpc[c] # "idle" => slot = "None"

\* C1 witness: a second caller ran stop_backend to its end while the first
\* one was still between take() and kill().
C1_Witness ==
    \E c, d \in Callers :
        /\ c # d
        /\ cpc[c] = "kill"
        /\ cpc[d] = "done"
        /\ outcome[d] = "ja_encerrado"

\* C2: stop_backend is idempotent: every call leaves the slot empty, and a
\* call made after another call has returned, or with the slot already
\* empty, requests no kill, changes nothing else and only logs "backend ja
\* estava encerrado".
C2_Idempotent ==
    [][\A c \in Callers :
          (cpc[c] = "idle" /\ cpc'[c] # "idle") =>
              /\ slot' = "None"
              /\ (slot = "None" \/ \E d \in Callers : cpc[d] = "done") =>
                     /\ cpc'[c] = "done"
                     /\ outcome'[c] = "ja_encerrado"
                     /\ kills' = kills
                     /\ worker' = worker]_vars

\* C2 witness: two calls with a worker: the first requested the kill, the
\* other found the slot empty.
C2_Witness ==
    \E c, d \in Callers :
        /\ c # d
        /\ outcome[c] = "finalizado"
        /\ outcome[d] = "ja_encerrado"
        /\ kills = 1
        /\ slot = "None"

C4_EventuallyShown == (window = "hidden") ~> (window = "shown")

\* C4 witness: the window is shown although the spawn failed and the health
\* check timed out.
C4_Witness ==
    /\ window = "shown"
    /\ worker = "absent"
    /\ hres = "false"
    /\ elapsed >= HealthTimeout

\* C5: restart_app, once invoked, reaches app.restart(); it makes at most
\* two port-release waits of at most 3 s each and at most one forced kill
\* with its 300 ms sleep, and a port still occupied never aborts it.
C5_RestartTerminates ==
    /\ [](/\ nwaits <= 2
          /\ nforce <= 1
          /\ waited <= PortTimeout
          /\ rpc \in {"idle", "wait1", "force", "wait2", "restart", "done"}
          /\ (warned => rpc \in {"restart", "done"}))
    /\ (cpc["restart_app_command"] # "idle") ~> (proc = "restarted")

\* C5 witness: the restart happened with the port occupied to the end.
C5_Witness ==
    /\ proc = "restarted"
    /\ warned
    /\ nwaits = 2
    /\ nforce = 1

\* C6 as claimed: after the first attempt, no GET is issued once the
\* accumulated slept time has reached the timeout.
C6_NoAttemptAfterTimeout ==
    \A i \in 2..Len(attempts) : attempts[i] < timeout

\* C6 as amended: the timeout is tested after the attempt, so exactly one
\* GET is issued with the accumulated slept time >= timeout: it is the last
\* attempt, and false is returned right after it fails, without a sleep.
C6_OneFinalAttempt ==
    /\ \A i \in 1..(Len(attempts) - 1) : attempts[i] < timeout
    /\ hres = "false" =>
           /\ attempts[Len(attempts)] >= timeout
           /\ elapsed = attempts[Len(attempts)]

\* C6 witness: timeout 1 s, the fourth GET is issued at 1.425 s.
C6_Witness ==
    /\ timeout = 1000
    /\ hres = "false"
    /\ attempts = <<0, 300, 750, 1425>>

\* The delays 300 * 1.5^k truncated to milliseconds, capped at 2 s.
ExpectedDelay(i) ==
    IF i <= 6 THEN <<300, 450, 675, 1012, 1518, 2000>>[i] ELSE 2000

\* C7: the delays slept start at 300 ms, never decrease, are each 1.5 times
\* the previous one truncated to milliseconds, never exceed 2 s and stay at
\* 2 s once they reach it.
C7_DelaySequence ==
    /\ delay <= MaxDelay
    /\ \A i \in 1..Len(slept) :
         /\ slept[i] = ExpectedDelay(i)
         /\ slept[i] <= MaxDelay
         /\ i > 1 => /\ slept[i] >= slept[i - 1]
                     /\ (slept[i - 1] = MaxDelay => slept[i] = MaxDelay)
    /\ slept = << >> => delay = InitialDelay

\* C7 witness: the cap was reached and kept.
C7_Witness ==
    /\ Len(slept) >= 8
    /\ slept[6] = MaxDelay
    /\ slept[8] = MaxDelay

\* C8: HTTP 500 for 2 s and then 200, timeout 10 s: the failed attempts are
\* made at 0, 300, 750 and 1425 ms of waited time, the fifth attempt (at
\* 2437 ms) succeeds and true is returned.
C8_ScenarioAttempts == <<0, 300, 750, 1425, 2437>>
C8_Scenario ==
    (endpoint = "500_for_2s_then_200" /\ timeout = 10000) =>
        /\ attempts = SubSeq(C8_ScenarioAttempts, 1, Len(attempts))
        /\ hres # "false"
        /\ hpc # "loop" => (hres = "true" /\ attempts = C8_ScenarioAttempts)

\* C8 witness: the scenario has returned true.
C8_Witness ==
    /\ endpoint = "500_for_2s_then_200"
    /\ timeout = 10000
    /\ hres = "true"
    /\ Len(attempts) = 5

\* C9 as claimed: endpoint never succeeding, timeout 1 s: false is returned
\* with between 1.0 s and 1.2 s waited.
C9_Within1200 ==
    (endpoint = "never" /\ timeout = 1000 /\ hres = "false") =>
        (elapsed >= 1000 /\ elapsed <= 1200)

\* C9 as amended: false is returned with 1.425 s waited (300 + 450 + 675
\* ms), that is between 1.0 s and 1.425 s.
C9_Returns1425 ==
    (endpoint = "never" /\ timeout = 1000 /\ hres = "false") =>
        /\ elapsed = 1425
        /\ slept = <<300, 450, 675>>

\* C9 witness: the scenario has returned false.
C9_Witness ==
    /\ endpoint = "never"
    /\ timeout = 1000
    /\ hres = "false"
    /\ Len(slept) = 3

\* C10 as claimed: after stop_backend has taken the handle and kill has
\* returned, Ok or Err, the slot is empty and the worker no longer runs.
C10_StoppedAfterStop ==
    \A c \in Callers :
        outcome[c] \in {"finalizado", "falha"} =>
            (slot = "None" /\ worker # "running")

\* C10 as amended: the slot is empty for both outcomes of kill; the worker
\* no longer runs when kill returned Ok; on Err only the failure is logged.
C10_StoppedWhenKillOk ==
    \A c \in Callers :
        /\ outcome[c] = "finalizado" => (slot = "None" /\ worker = "dead")
        /\ outcome[c] = "falha" => slot = "None"

\* C10 witness: stop right after the spawn, kill returned Ok.
C10_Witness ==
    \E c \in Callers :
        /\ outcome[c] = "finalizado"
        /\ worker = "dead"
        /\ fwdlog = << >>
        /\ rx = <<"Terminated">>

\* C11: stop_backend runs in the CloseRequested, ExitRequested and Exit
\* handlers, and the process ends only after the Exit handler has returned:
\* whenever the process has exited past setup, the Exit call of stop_backend
\* has finished and the slot is empty.
C11_EmptyAtExit ==
    (proc = "exited" /\ spc = "done") =>
        /\ slot = "None"
        /\ cpc["exit"] = "done"
        /\ outcome["exit"] \in {"finalizado", "falha", "ja_encerrado"}

\* C11 witness: the process exited after the three event handlers ran with a
\* worker spawned.
C11_Witness ==
    /\ proc = "exited"
    /\ worker # "absent"
    /\ \A c \in {"close_requested", "exit_requested", "exit"} : cpc[c] = "done"

\* Handles in existence: the one in the slot and those taken out of it by
\* a stop_backend call that has not yet consumed it with kill().
Handles ==
    (IF slot = "Some" THEN 1 ELSE 0) + Cardinality({c \in Callers : cpc[c] = "kill"})

\* C12: at most one worker handle exists at a time, and the result of
\* spawn_backend is stored only into an empty slot, with no worker spawned
\* before: no stored handle is overwritten.
C12_OneHandle ==
    /\ [](Handles <= 1)
    /\ [][(spc = "spawn" /\ spc' # "spawn") =>
              (slot = "None" /\ worker = "absent" /\ Handles = 0)]_vars
    /\ [][worker' # worker => (worker = "absent" <=> spc = "spawn")]_vars

\* C12 witness: the handle of the spawned worker has just been stored.
C12_Witness ==
    /\ spc = "gate"
    /\ slot = "Some"
    /\ worker = "running"

\* A step of wait_backend_port_release: one bind, then a sleep or a return.
WaitStep == rpc \in {"wait1", "wait2"} /\ (rpc' # rpc \/ waited' # waited)
WaitReturnedTrue ==
    IF rpc = "wait1" THEN rpc' = "wait2" ELSE (rpc' = "restart" /\ warned' = warned)
WaitReturnedFalse ==
    IF rpc = "wait1" THEN rpc' = "force" ELSE (rpc' = "restart" /\ warned')

\* C13: wait_backend_port_release binds port 8000 every 120 ms while the
\* elapsed time is below the timeout and returns true at the first bind that
\* succeeds; once the timeout has elapsed it binds exactly once more and
\* returns that result; it returns false only then; it always terminates.
C13_PortWait ==
    /\ [][WaitStep =>
            /\ lastbind' \in {"free", "busy"}
            /\ (lastbind' = "free" => (rpc' # rpc /\ WaitReturnedTrue))
            /\ (rpc' = rpc => /\ waited < PortTimeout
                              /\ waited' = waited + PollInterval
                              /\ lastbind' = "busy")
            /\ (waited >= PortTimeout => rpc' # rpc)
            /\ ((rpc' # rpc /\ lastbind' = "busy") =>
                    (waited >= PortTimeout /\ WaitReturnedFalse))]_vars
    /\ (rpc = "wait1") ~> (rpc # "wait1")
    /\ (rpc = "wait2") ~> (rpc # "wait2")

\* C13 witness: the first wait returned false, after its final bind failed.
C13_Witness ==
    /\ rpc = "force"
    /\ lastbind = "busy"
    /\ nwaits = 1
    /\ nforce = 0

\* Whether a line can be appended to file f.
Writable(f) == lenv[f].open /\ lenv[f].write

\* C14: log_line returns normally whatever fails, and treats each path on
\* its own: the open of both paths is attempted, and a file gets the line
\* (once per path naming it) exactly when its own open and write succeed;
\* with the primary file failing the line is still appended to the temp
\* file when that one can be written.
C14_LogBestEffort ==
    /\ lpc \in 1..3
    /\ lpc = 3 =>
         /\ ltried = {1, 2}
         /\ \A f \in Files :
              files[f] = IF Writable(f)
                         THEN Cardinality({i \in 1..2 : lpaths[i] = f})
                         ELSE 0
         /\ (~Writable("primary") /\ Writable("temp")) => files["temp"] >= 1

\* C14 witness: the primary file could not be opened, the temp file got the
\* line.
C14_Witness ==
    /\ lpc = 3
    /\ lpaths[1] = "primary"
    /\ ~lenv["primary"].open
    /\ files["primary"] = 0
    /\ files["temp"] = 1

\* C15: restart_app runs its steps in order: stop_backend has returned and
\* the slot is empty before the first port wait; the forced kill with its
\* 300 ms sleep happens exactly when the first wait returned false, at most
\* once; a second wait always follows; app.restart() comes only after the
\* second wait has returned.
C15_RestartOrder ==
    /\ [](/\ rpc # "idle" => (cpc["restart_app_command"] = "done" /\ slot = "None")
          /\ nforce <= 1
          /\ rpc = "wait1" => (nwaits = 1 /\ nforce = 0)
          /\ rpc = "force" => (nwaits = 1 /\ nforce = 0 /\ lastbind = "busy")
          /\ rpc \in {"wait2", "restart", "done"} => nwaits = 2
          /\ proc = "restarted" => rpc = "done")
    /\ [][/\ (rpc = "wait1" /\ rpc' # rpc) =>
                 /\ rpc' \in {"force", "wait2"}
                 /\ rpc' = "force" <=> lastbind' = "busy"
          /\ (rpc = "force" /\ rpc' # rpc) => (rpc' = "wait2" /\ nforce' = 1)
          /\ nforce' # nforce => rpc = "force"
          /\ (rpc = "wait2" /\ rpc' # rpc) => rpc' = "restart"
          /\ proc' = "restarted" => rpc = "restart"]_vars

\* C15 witness: the first wait returned true, so nothing was force-killed,
\* and the second wait has returned.
C15_Witness ==
    /\ rpc = "restart"
    /\ nwaits = 2
    /\ nforce = 0
    /\ ~warned

\* C16: startup is ordered hide -> spawn -> probe -> show: the spawn is
\* attempted only with the window hidden (a failed hide ends setup with no
\* worker and no probe), the probe starts after the spawn attempt, and the
\* window is shown only after wait_for_health has returned true or false.
C16_StartupOrder ==
    /\ spc = "failed" =>
           (worker = "absent" /\ slot = "None" /\ hpc = "none" /\ window = "visible")
    /\ spc \in {"spawn", "gate"} => (window = "hidden" /\ hpc = "none")
    /\ worker # "absent" => window \in {"hidden", "shown"}
    /\ hpc # "none" => spc = "done"
    /\ hpc \in {"loop", "returned"} => window = "hidden"
    /\ window = "shown" => (hpc = "done" /\ hres \in {"true", "false"})

\* C16 witness: the window is shown after a spawn and a probe that needed
\* several attempts.
C16_Witness ==
    /\ window = "shown"
    /\ worker = "running"
    /\ hres = "true"
    /\ Len(attempts) >= 2

\* Events the worker's stream has delivered so far, in order.
Delivered == fwdlog \o rx

IsPrefix(a, b) == Len(a) <= Len(b) /\ SubSeq(b, 1, Len(a)) = a

\* C17: no step, of stop_backend or of anything else, removes or reorders
\* an event of the stream; the forwarding task logs the events in the order
\* of delivery, and every event delivered is eventually logged, with or
\* without a stop_backend call and also when the worker exits on its own.
C17_Forwarding ==
    /\ [][IsPrefix(Delivered, Delivered') /\ IsPrefix(fwdlog, fwdlog')]_vars
    /\ \A n \in 1..(MaxOutput + 1) :
           (Len(Delivered) >= n) ~> (Len(fwdlog) >= n /\ IsPrefix(fwdlog, Delivered))

\* C17 witness: a line written before a stop_backend call and the
\* Terminated event caused by its kill were both logged, after the slot was
\* emptied.
C17_Witness ==
    /\ Len(fwdlog) = 2
    /\ fwdlog[1] \in OutputEvents
    /\ fwdlog[2] = "Terminated"
    /\ kills = 1
    /\ slot = "None"

\* A step of the health gating task.
HealthStep ==
    hpc \in {"loop", "returned"} /\ (hpc' # hpc \/ attempts' # attempts)

\* C18: no step of wait_for_health or of the gating task changes the slot
\* or the worker or requests a kill; after a health timeout the slot still
\* holds the handle stored at spawn unless a stop_backend call took it, and
\* the worker still runs unless it exited on its own or was killed.
C18_ProbeFrame ==
    /\ [][HealthStep =>
            /\ slot' = slot
            /\ worker' = worker
            /\ kills' = kills
            /\ cpc' = cpc
            /\ rx' = rx]_vars
    /\ []((hres = "false" /\ worker # "absent" /\ \A c \in Callers : cpc[c] = "idle")
              => slot = "Some")
    /\ []((hres = "false" /\ worker # "absent" /\ kills = 0
              /\ "Terminated" \notin Range(Delivered))
              => worker = "running")

\* C18 witness: the health check timed out, the window was shown, the
\* handle is still in the slot and the worker runs.
C18_Witness ==
    /\ hres = "false"
    /\ hpc = "done"
    /\ slot = "Some"
    /\ worker = "running"

\* C19: the slot goes None -> Some -> None: it is set to Some only by the
\* store in setup, with no worker spawned before; no worker is spawned a
\* second time in the process; once a stop_backend call has emptied the
\* slot it stays empty.
C19_SlotMonotonic ==
    /\ [][(slot = "None" /\ slot' = "Some") => (spc = "spawn" /\ worker = "absent")]_vars
    /\ [][worker # "absent" => worker' # "absent"]_vars
    /\ [][(slot = "None" /\ worker # "absent") => slot' = "None"]_vars
    /\ []((\E c \in Callers : cpc[c] # "idle") => slot = "None")

\* C19 witness: the CloseRequested handler emptied the slot and the later
\* ExitRequested handler found it empty.
C19_Witness ==
    /\ outcome["close_requested"] \in {"finalizado", "falha"}
    /\ outcome["exit_requested"] = "ja_encerrado"
    /\ slot = "None"
    /\ worker # "absent"

\* C20: for every timeout, 0 included, wait_for_health makes at least one
\* attempt and returns; when it returns false the time slept e satisfies
\* timeout <= e < timeout + 2 s.
C20_Overshoot ==
    /\ [](/\ hpc \in {"returned", "done"} => Len(attempts) >= 1
          /\ hres = "false" => (timeout <= elapsed /\ elapsed < timeout + MaxDelay))
    /\ (hpc = "loop") ~> (hpc = "done")

\* C20 witness: timeout 0, one attempt, false with nothing slept.
C20_Witness ==
    /\ timeout = 0
    /\ hres = "false"
    /\ attempts = <<0>>
    /\ elapsed = 0

====
